---- MODULE Spec2Model ----
(***************************************************************************)
(* Model of the orchestration layer of the Steam manifest tool             *)
(* (src/main.py, function main) together with the collaborators it calls   *)
(* (RepositoryManager, FileProcessor, SteamAppManager), whose modules are   *)
(* not part of src/ and are modelled from their contracts.                  *)
(*                                                                          *)
(* One invocation of main() is a walk of pc from "start" to "returned"     *)
(* (main returned, process exit status 0) or "exited" (sys.exit(1)).  Each *)
(* action is the code of main between two awaits.  The on-disk             *)
(* configuration (config) is what earlier invocations left behind.         *)
(***************************************************************************)
EXTENDS Integers, Sequences, FiniteSets, TLC

\* ---------------------------------------------------------------- bounds
MaxFiles == 2        \* artifacts a repository listing may name
MaxDlc == 2          \* dependent identifiers an application may have
MaxCandidates == 2   \* candidate repositories a single resolution is studied over

None == "none"
NoId == 0 - 1
AppIds == {0}
DlcIds == 1..MaxDlc
Identifiers == AppIds \cup DlcIds
Artifacts == 1..MaxFiles
Repos == {"repoA", "repoB"}

\* dependent lists steam_app_manager.dlc_ids may hold: distinct identifiers
DlcLists == {s \in UNION {[1..n -> DlcIds] : n \in 0..MaxDlc} :
                \A i, j \in 1..Len(s) : i < j => s[i] < s[j]}

\* listings fetch_repository_files may return; the empty one is a failed listing
Listings == {1..n : n \in 0..MaxFiles}

VARIABLES
    pc,              \* position of main()
    exitCode,        \* process exit status once main has ended, else None
    interrupted,     \* a KeyboardInterrupt was delivered in this invocation
    app_id,          \* app_id (line 134)
    repo,            \* repo / dlc_repo: the resolved repository or None
    files,           \* files / dlc_files: the listing of the current identifier
    pending,         \* downloads of process_files not yet finished
    okSet,           \* artifacts process_files downloaded and decoded
    failSet,         \* artifacts whose download or decoding failed
    success,         \* what process_files returned to the primary run
    file_processor,  \* staging records of the primary FileProcessor
    dlc_processor,   \* staging records of the DLC FileProcessor
    dlc_ids,         \* steam_app_manager.dlc_ids
    dlcIdx,          \* position of the for loop of line 193 (0: not entered)
    config,          \* persisted entries: identifier with an entry -> record set
    calls,           \* collaborator calls of this invocation, in order
    log,             \* messages the orchestrator emitted in this invocation
    decoded,         \* records decoded in the current identifier's run
    lastDecoded,     \* per identifier: decoded set of the last run that persisted it
    prior,           \* the disk as this invocation found it
    ended,           \* identifier runs that have ended, each with its outcome
    resolver         \* one find_repository call: its inputs and its result

vars == <<pc, exitCode, interrupted, app_id, repo, files, pending, okSet, failSet,
          success, file_processor, dlc_processor, dlc_ids, dlcIdx, config, calls,
          log, decoded, lastDecoded, prior, ended, resolver>>

Terminal == {"returned", "exited"}
\* positions inside the try block of lines 115-217
TryStages == {"rate", "search", "find", "details", "list", "process", "downloading",
              "save", "dlc_find", "dlc_list", "dlc_process", "dlc_downloading",
              "dlc_save"}

\* the run of identifier `id` ends with outcome `why`
End(id, why) == ended' = ended \cup {<<id, why>>}

Call(op, who) == calls' = Append(calls, <<op, who>>)
Emit(kind, who) == log' = log \cup {<<kind, who>>}

\* `return` from main: asyncio.run ends normally, exit status 0
Return == pc' = "returned" /\ exitCode' = 0
\* sys.exit(1)
SysExit == pc' = "exited" /\ exitCode' = 1

\* the state of a fresh process: nothing but the disk survives
Fresh ==
    /\ pc = "start"
    /\ exitCode = None
    /\ interrupted = FALSE
    /\ app_id = NoId
    /\ repo = None
    /\ files = {}
    /\ pending = {}
    /\ okSet = {}
    /\ failSet = {}
    /\ success = FALSE
    /\ file_processor = {}
    /\ dlc_processor = {}
    /\ dlc_ids = <<>>
    /\ dlcIdx = 0
    /\ calls = <<>>
    /\ log = {}
    /\ decoded = {}
    /\ ended = {}

\* the record a processor stages for an artifact of an identifier it decoded
RecordOf(id, f) == <<id, f>>

\* the entry an earlier invocation left for an identifier all of whose
\* artifacts it decoded
FullEntry(id) == {RecordOf(id, f) : f \in Artifacts}

\* the disk an invocation may start from: an earlier invocation persisted
\* nothing, the application only, or the application and its DLCs
PriorDisks == {[i \in S |-> FullEntry(i)] : S \in {{}, AppIds, Identifiers}}

\* the candidate lists find_repository may be given (line 143: the user's
\* repository alone, or the default list): distinct repositories in order
ListsOver(R) == {c \in UNION {[1..n -> R] : n \in 0..Cardinality(R)} :
                    \A i, j \in 1..Len(c) : i # j => c[i] # c[j]}
CandidateLists == ListsOver(Repos)

\* what a repository's existence probe may answer for an identifier
ProbeAnswers == {"yes", "no", "error"}
ProbeOutcomes == [Repos -> ProbeAnswers]

\* the search that stops at a probe failing with a network error
RECURSIVE FindFromAbortsOnError(_, _, _)
FindFromAbortsOnError(cands, probes, i) ==
    IF i > Len(cands) THEN None
    ELSE IF probes[cands[i]] = "yes" THEN cands[i]
    ELSE IF probes[cands[i]] = "error" THEN None
    ELSE FindFromAbortsOnError(cands, probes, i + 1)

\* RepositoryManager.find_repository from the i-th candidate on: probe the
\* candidates in order, return the first whose probe answers yes; a probe
\* that fails counts as a no
RECURSIVE FindFrom(_, _, _)
FindFrom(cands, probes, i) ==
    IF i > Len(cands) THEN None
    ELSE IF probes[cands[i]] = "yes" THEN cands[i]
    ELSE FindFrom(cands, probes, i + 1)

\* RepositoryManager.find_repository(identifier, candidates)
FindRepositoryIn(cands, probes) == FindFrom(cands, probes, 1)

\* what find_repository may return to main
FindResults == {FindRepositoryIn(c, p) : c \in CandidateLists, p \in ProbeOutcomes}

\* no find_repository call under study
IdleResolver ==
    [id |-> NoId, cands |-> <<>>, probes |-> [r \in Repos |-> "no"],
     result |-> None, done |-> TRUE]

Init ==
    /\ Fresh
    /\ config \in PriorDisks
    /\ lastDecoded = config
    /\ prior = config
    /\ resolver = IdleResolver

\* FileProcessor(): a processor with empty staging state
NewFileProcessor == {}

\* FileProcessor.clear(): reset the staging state
Clear(processor) == {}

\* FileProcessor.save_lua_config: the entry written for `id` is the staging
\* state, replacing any prior entry; on an I/O failure the prior entry stays
SaveLuaConfig(cfg, id, processor, io) ==
    IF io
    THEN [i \in DOMAIN cfg \cup {id} |-> IF i = id THEN processor ELSE cfg[i]]
    ELSE cfg

\* bookkeeping: the run of `id` that just persisted decoded `recs`
Persisted(last, id, recs) ==
    [i \in DOMAIN last \cup {id} |-> IF i = id THEN recs ELSE last[i]]

\* RepositoryManager.process_files returns success iff an artifact succeeded
ProcessResult(ok) == ok # {}

\* the gate with the `return` of line 109 left out
VerifySteamPathFallsThrough ==
    /\ pc = "start"
    /\ \E found \in BOOLEAN :
         IF found THEN UNCHANGED log ELSE Emit("no_steam_path", NoId)
    /\ pc' = "rate"
    /\ file_processor' = NewFileProcessor
    /\ UNCHANGED <<exitCode, interrupted, app_id, repo, files, pending, okSet, failSet, success,
                   dlc_processor, dlc_ids, dlcIdx, config, calls, decoded,
                   lastDecoded, prior, ended, resolver>>

\* lines 105-119: locate the client directory, then build the managers
VerifySteamPath ==
    /\ pc = "start"
    /\ \E found \in BOOLEAN :
         IF found
         THEN /\ pc' = "rate"
              /\ file_processor' = NewFileProcessor
              /\ UNCHANGED <<exitCode, log>>
         ELSE /\ Return
              /\ Emit("no_steam_path", NoId)
              /\ UNCHANGED file_processor
    /\ UNCHANGED <<interrupted, app_id, repo, files, pending, okSet, failSet, success,
                   dlc_processor, dlc_ids, dlcIdx, config, calls, decoded,
                   lastDecoded, prior, ended, resolver>>

\* the rate-limit gate with the `return` of line 124 left out
CheckRateLimitIgnored ==
    /\ pc = "rate"
    /\ Call("check_rate_limit", NoId)
    /\ \E allowed \in BOOLEAN :
         IF allowed
         THEN UNCHANGED log
         ELSE Emit("rate_exhausted", NoId)
    /\ pc' = "search"
    /\ UNCHANGED <<exitCode, interrupted, app_id, repo, files, pending, okSet, failSet, success,
                   file_processor, dlc_processor, dlc_ids, dlcIdx, config, decoded,
                   lastDecoded, prior, ended, resolver>>

\* lines 121-124: the rate-limit gate
CheckRateLimit ==
    /\ pc = "rate"
    /\ Call("check_rate_limit", NoId)
    /\ \E allowed \in BOOLEAN :
         IF allowed
         THEN pc' = "search" /\ UNCHANGED <<exitCode, log>>
         ELSE Return /\ Emit("rate_exhausted", NoId)
    /\ UNCHANGED <<interrupted, app_id, repo, files, pending, okSet, failSet, success,
                   file_processor, dlc_processor, dlc_ids, dlcIdx, config, decoded,
                   lastDecoded, prior, ended, resolver>>

\* lines 126-140: resolve the query to an application identifier
SearchApp ==
    /\ pc = "search"
    /\ Call("search_app", NoId)
    /\ \E id \in AppIds \cup {NoId} :
         /\ app_id' = id
         /\ IF id # NoId
            THEN pc' = "find" /\ UNCHANGED <<exitCode, log>>
            ELSE Return /\ Emit("no_app_id", NoId)
    /\ UNCHANGED <<interrupted, repo, files, pending, okSet, failSet, success,
                   file_processor, dlc_processor, dlc_ids, dlcIdx, config, decoded,
                   lastDecoded, prior, ended, resolver>>

\* the primary resolution with the `return` of line 149 left out
FindRepositoryFallsThrough ==
    /\ pc = "find"
    /\ Call("find_repository", app_id)
    /\ \E r \in FindResults :
         /\ repo' = r
         /\ IF r # None
            THEN UNCHANGED <<log, ended>>
            ELSE Emit("repo_not_found", app_id) /\ End(app_id, "ResolutionFailure")
    /\ pc' = "details"
    /\ UNCHANGED <<exitCode, interrupted, app_id, files, pending, okSet, failSet, success,
                   file_processor, dlc_processor, dlc_ids, dlcIdx, config, decoded,
                   lastDecoded, prior, resolver>>

\* lines 145-149: resolve the primary identifier's repository
FindRepository ==
    /\ pc = "find"
    /\ Call("find_repository", app_id)
    /\ \E r \in FindResults :
         /\ repo' = r
         /\ IF r # None
            THEN pc' = "details" /\ UNCHANGED <<exitCode, log, ended>>
            ELSE /\ Return
                 /\ Emit("repo_not_found", app_id)
                 /\ End(app_id, "ResolutionFailure")
    /\ UNCHANGED <<interrupted, app_id, files, pending, okSet, failSet, success,
                   file_processor, dlc_processor, dlc_ids, dlcIdx, config, decoded,
                   lastDecoded, prior, resolver>>

\* lines 151-152: fetch_app_details sets app_name and dlc_ids
FetchAppDetails ==
    /\ pc = "details"
    /\ Call("fetch_app_details", app_id)
    /\ \E ds \in DlcLists : dlc_ids' = ds
    /\ pc' = "list"
    /\ UNCHANGED <<exitCode, interrupted, app_id, repo, files, pending, okSet, failSet,
                   success, file_processor, dlc_processor, dlcIdx, config, log,
                   decoded, lastDecoded, prior, ended, resolver>>

\* lines 154-158: list the primary identifier's files
FetchRepositoryFiles ==
    /\ pc = "list"
    /\ Call("fetch_repository_files", app_id)
    /\ \E fs \in Listings :
         /\ files' = fs
         /\ IF fs # {}
            THEN pc' = "process" /\ UNCHANGED <<exitCode, log, ended>>
            ELSE /\ Return
                 /\ Emit("no_files", app_id)
                 /\ End(app_id, "ListingFailure")
    /\ UNCHANGED <<interrupted, app_id, repo, pending, okSet, failSet, success,
                   file_processor, dlc_processor, dlc_ids, dlcIdx, config, decoded,
                   lastDecoded, prior, resolver>>

\* lines 160-164: process_files is entered and starts one download per file
ProcessFiles ==
    /\ pc = "process"
    /\ Call("process_files", app_id)
    /\ pending' = files
    /\ okSet' = {}
    /\ failSet' = {}
    /\ pc' = "downloading"
    /\ UNCHANGED <<exitCode, interrupted, app_id, repo, files, success,
                   file_processor, dlc_processor, dlc_ids, dlcIdx, config, log,
                   decoded, lastDecoded, prior, ended, resolver>>

\* the identifier whose run is in progress
CurrentId == IF dlcIdx = 0 THEN app_id ELSE dlc_ids[dlcIdx]

\* a download whose failure cancels the downloads still in flight
DownloadFailFast(f) ==
    /\ pc \in {"downloading", "dlc_downloading"}
    /\ f \in pending
    /\ \E ok \in BOOLEAN :
         IF ok
         THEN /\ pending' = pending \ {f}
              /\ okSet' = okSet \cup {f}
              /\ UNCHANGED failSet
              /\ decoded' = decoded \cup {RecordOf(CurrentId, f)}
              /\ IF pc = "downloading"
                 THEN /\ file_processor' = file_processor \cup {RecordOf(CurrentId, f)}
                      /\ UNCHANGED dlc_processor
                 ELSE /\ dlc_processor' = dlc_processor \cup {RecordOf(CurrentId, f)}
                      /\ UNCHANGED file_processor
         ELSE /\ pending' = {}
              /\ failSet' = failSet \cup {f}
              /\ UNCHANGED <<okSet, decoded, file_processor, dlc_processor>>
    /\ UNCHANGED <<pc, exitCode, interrupted, app_id, repo, files, success,
                   dlc_ids, dlcIdx, config, calls, log, lastDecoded, prior, ended, resolver>>

\* one download of process_files finishes: the artifact is decoded into the
\* manager's processor, or it fails alone
Download(f) ==
    /\ pc \in {"downloading", "dlc_downloading"}
    /\ f \in pending
    /\ pending' = pending \ {f}
    /\ \E ok \in BOOLEAN :
         IF ok
         THEN /\ okSet' = okSet \cup {f}
              /\ UNCHANGED failSet
              /\ decoded' = decoded \cup {RecordOf(CurrentId, f)}
              /\ IF pc = "downloading"
                 THEN /\ file_processor' = file_processor \cup {RecordOf(CurrentId, f)}
                      /\ UNCHANGED dlc_processor
                 ELSE /\ dlc_processor' = dlc_processor \cup {RecordOf(CurrentId, f)}
                      /\ UNCHANGED file_processor
         ELSE /\ failSet' = failSet \cup {f}
              /\ UNCHANGED <<okSet, decoded, file_processor, dlc_processor>>
    /\ UNCHANGED <<pc, exitCode, interrupted, app_id, repo, files, success,
                   dlc_ids, dlcIdx, config, calls, log, lastDecoded, prior, ended, resolver>>

\* process_files starting the failed downloads again instead of returning
ProcessFilesReturnRetries ==
    /\ pc = "downloading"
    /\ pending = {}
    /\ IF failSet # {}
       THEN /\ pending' = failSet
            /\ failSet' = {}
            /\ UNCHANGED <<pc, success, log>>
       ELSE /\ success' = ProcessResult(okSet)
            /\ UNCHANGED <<log, pending, failSet>>
            /\ pc' = "save"
    /\ UNCHANGED <<exitCode, interrupted, app_id, repo, files, okSet,
                   file_processor, dlc_processor, dlc_ids, dlcIdx, config, calls,
                   decoded, lastDecoded, prior, ended, resolver>>

\* lines 162-167: process_files returns its flag to the primary run
ProcessFilesReturn ==
    /\ pc = "downloading"
    /\ pending = {}
    /\ success' = ProcessResult(okSet)
    /\ IF ~success' THEN Emit("partial_failure", app_id) ELSE UNCHANGED log
    /\ pc' = "save"
    /\ UNCHANGED <<exitCode, interrupted, app_id, repo, files, pending, okSet, failSet,
                   file_processor, dlc_processor, dlc_ids, dlcIdx, config, calls,
                   decoded, lastDecoded, prior, ended, resolver>>

\* the locals of one identifier's run (repo, files, the downloads of
\* process_files) are not read again once the next identifier's run starts
EndRun ==
    /\ repo' = None
    /\ files' = {}
    /\ pending' = {}
    /\ okSet' = {}
    /\ failSet' = {}
    /\ decoded' = {}

\* the loop running its k-th identifier again instead of moving on
NextDlcRepeats(k) ==
    IF k < Len(dlc_ids)
    THEN dlcIdx' = k /\ pc' = "dlc_find" /\ EndRun /\ UNCHANGED exitCode
    ELSE dlcIdx' = k /\ Return /\ UNCHANGED <<repo, files, pending, okSet, failSet, decoded>>

\* the for loop of line 193 moves on from its k-th identifier; after the last
\* one main leaves the try block and returns (lines 228-233)
NextDlc(k) ==
    IF k < Len(dlc_ids)
    THEN dlcIdx' = k + 1 /\ pc' = "dlc_find" /\ EndRun /\ UNCHANGED exitCode
    ELSE dlcIdx' = k /\ Return /\ UNCHANGED <<repo, files, pending, okSet, failSet, decoded>>

\* lines 169-191: persist the primary entry, then enter the DLC loop
SaveConfig ==
    /\ pc = "save"
    /\ Call("save_lua_config", app_id)
    /\ \E io \in BOOLEAN :
         /\ config' = SaveLuaConfig(config, app_id, file_processor, io)
         /\ lastDecoded' = IF io THEN Persisted(lastDecoded, app_id, decoded)
                           ELSE lastDecoded
         /\ IF io
            THEN Emit("done", app_id) /\ End(app_id, "Persisted")
            ELSE Emit("save_failed", app_id) /\ End(app_id, "PersistFailure")
    /\ IF dlc_ids # <<>>
       THEN /\ dlc_processor' = NewFileProcessor
            /\ dlcIdx' = 1
            /\ pc' = "dlc_find"
            /\ EndRun
            /\ UNCHANGED exitCode
       ELSE /\ Return
            /\ UNCHANGED <<dlc_processor, dlcIdx, repo, files, pending, okSet, failSet, decoded>>
    /\ UNCHANGED <<interrupted, app_id, success, file_processor, dlc_ids, prior, resolver>>

\* the DLC resolution preceded by a rate-limit check of its own
DlcFindRepositoryRechecks ==
    /\ pc = "dlc_find"
    /\ calls' = calls \o << <<"check_rate_limit", NoId>>, <<"find_repository", CurrentId>> >>
    /\ \E r \in FindResults :
         IF r # None
         THEN /\ repo' = r
              /\ pc' = "dlc_list"
              /\ UNCHANGED <<exitCode, log, dlcIdx, files, pending, okSet, failSet,
                             decoded, ended>>
         ELSE /\ Emit("dlc_repo_not_found", CurrentId)
              /\ End(CurrentId, "ResolutionFailure")
              /\ NextDlc(dlcIdx)
    /\ UNCHANGED <<interrupted, app_id, success, file_processor,
                   dlc_processor, dlc_ids, config, lastDecoded, prior, resolver>>

\* lines 194-197, 216-217: resolve the repository of the current DLC
DlcFindRepository ==
    /\ pc = "dlc_find"
    /\ Call("find_repository", CurrentId)
    /\ \E r \in FindResults :
         IF r # None
         THEN /\ repo' = r
              /\ pc' = "dlc_list"
              /\ UNCHANGED <<exitCode, log, dlcIdx, files, pending, okSet, failSet,
                             decoded, ended>>
         ELSE /\ Emit("dlc_repo_not_found", CurrentId)
              /\ End(CurrentId, "ResolutionFailure")
              /\ NextDlc(dlcIdx)
    /\ UNCHANGED <<interrupted, app_id, success, file_processor,
                   dlc_processor, dlc_ids, config, lastDecoded, prior, resolver>>

\* the DLC run with the clear() of line 201 left out
DlcStagingKept(processor) == processor

\* lines 200-201: the staging state the DLC's process_files starts from
DlcStaging(processor) == Clear(processor)

\* lines 198-201: list the DLC's files and, if there are any, clear the processor
DlcFetchRepositoryFiles ==
    /\ pc = "dlc_list"
    /\ Call("fetch_repository_files", CurrentId)
    /\ \E fs \in Listings :
         IF fs # {}
         THEN /\ files' = fs
              /\ dlc_processor' = DlcStaging(dlc_processor)
              /\ pc' = "dlc_process"
              /\ UNCHANGED <<exitCode, dlcIdx, repo, pending, okSet, failSet, decoded,
                             ended>>
         ELSE /\ NextDlc(dlcIdx)
              /\ End(CurrentId, "ListingFailure")
              /\ UNCHANGED dlc_processor
    /\ UNCHANGED <<interrupted, app_id, success, file_processor, dlc_ids,
                   config, log, lastDecoded, prior, resolver>>

\* lines 203-206: process_files is entered for the DLC
DlcProcessFiles ==
    /\ pc = "dlc_process"
    /\ Call("process_files", CurrentId)
    /\ pending' = files
    /\ okSet' = {}
    /\ failSet' = {}
    /\ pc' = "dlc_downloading"
    /\ UNCHANGED <<exitCode, interrupted, app_id, repo, files, success,
                   file_processor, dlc_processor, dlc_ids, dlcIdx, config, log,
                   decoded, lastDecoded, prior, ended, resolver>>

\* the DLC run going on without awaiting the downloads of process_files
DlcProcessFilesNotAwaited ==
    /\ pc = "dlc_downloading"
    /\ pc' = "dlc_save"
    /\ UNCHANGED <<exitCode, interrupted, app_id, repo, files, pending, okSet, failSet,
                   success, file_processor, dlc_processor, dlc_ids, dlcIdx, config,
                   calls, log, decoded, lastDecoded, prior, ended, resolver>>

\* lines 204-206: process_files returns; the DLC run discards its flag
DlcProcessFilesReturn ==
    /\ pc = "dlc_downloading"
    /\ pending = {}
    /\ pc' = "dlc_save"
    /\ UNCHANGED <<exitCode, interrupted, app_id, repo, files, pending, okSet, failSet,
                   success, file_processor, dlc_processor, dlc_ids, dlcIdx, config,
                   calls, log, decoded, lastDecoded, prior, ended, resolver>>

\* the identifier line 210 passes to save_lua_config
DlcSaveTarget == CurrentId

\* the DLC run saving the primary run's processor
DlcSaveSourcePrimary == file_processor

\* line 209: the processor whose staging state the DLC run saves
DlcSaveSource == dlc_processor

\* lines 208-215: persist the DLC entry, report it done, go to the next DLC
DlcSaveConfig ==
    /\ pc = "dlc_save"
    /\ Call("save_lua_config", DlcSaveTarget)
    /\ \E io \in BOOLEAN :
         /\ config' = SaveLuaConfig(config, DlcSaveTarget, DlcSaveSource, io)
         /\ lastDecoded' = IF io THEN Persisted(lastDecoded, CurrentId, decoded)
                           ELSE lastDecoded
         /\ End(CurrentId, IF io THEN "Persisted" ELSE "PersistFailure")
    /\ Emit("dlc_done", CurrentId)
    /\ NextDlc(dlcIdx)
    /\ UNCHANGED <<interrupted, app_id, success, file_processor,
                   dlc_processor, dlc_ids, prior, resolver>>

\* the interrupt handler with the sys.exit(1) of line 221 left out
KeyboardInterruptSwallowed ==
    /\ pc \notin Terminal
    /\ ~interrupted
    /\ interrupted' = TRUE
    /\ Emit("interrupted", NoId)
    /\ UNCHANGED <<pc, exitCode, app_id, repo, files, pending, okSet, failSet, success,
                   file_processor, dlc_processor, dlc_ids, dlcIdx, config, calls,
                   decoded, lastDecoded, prior, ended, resolver>>

\* lines 219-221: a user interrupt ends the invocation with sys.exit(1);
\* before the try block is entered the interrupt is not caught at all and
\* ends the process just the same, with a non-zero status
KeyboardInterrupt ==
    /\ pc \notin Terminal
    /\ interrupted' = TRUE
    /\ Emit("interrupted", NoId)
    /\ SysExit
    /\ UNCHANGED <<app_id, repo, files, pending, okSet, failSet, success,
                   file_processor, dlc_processor, dlc_ids, dlcIdx, config, calls,
                   decoded, lastDecoded, prior, ended, resolver>>

\* lines 222-226: an exception raised by the awaited call ends the invocation
RaiseException ==
    /\ pc \in TryStages
    /\ Emit("exception", NoId)
    /\ SysExit
    /\ UNCHANGED <<interrupted, app_id, repo, files, pending, okSet, failSet, success,
                   file_processor, dlc_processor, dlc_ids, dlcIdx, config, calls,
                   decoded, lastDecoded, prior, ended, resolver>>

Next ==
    \/ VerifySteamPath
    \/ CheckRateLimit
    \/ SearchApp
    \/ FindRepository
    \/ FetchAppDetails
    \/ FetchRepositoryFiles
    \/ ProcessFiles
    \/ \E f \in Artifacts : Download(f)
    \/ ProcessFilesReturn
    \/ SaveConfig
    \/ DlcFindRepository
    \/ DlcFetchRepositoryFiles
    \/ DlcProcessFiles
    \/ DlcProcessFilesReturn
    \/ DlcSaveConfig
    \/ KeyboardInterrupt
    \/ RaiseException

Spec == Init /\ [][Next]_vars

\* the steps main takes when the call it awaits returns
Progress ==
    \/ VerifySteamPath
    \/ CheckRateLimit
    \/ SearchApp
    \/ FindRepository
    \/ FetchAppDetails
    \/ FetchRepositoryFiles
    \/ ProcessFiles
    \/ \E f \in Artifacts : Download(f)
    \/ ProcessFilesReturn
    \/ SaveConfig
    \/ DlcFindRepository
    \/ DlcFetchRepositoryFiles
    \/ DlcProcessFiles
    \/ DlcProcessFilesReturn
    \/ DlcSaveConfig

\* every awaited call eventually returns unless it raises or the user
\* interrupts: main is not left suspended for ever
SpecFair == Spec /\ WF_vars(Progress)

\* the repositories a single resolution is studied over
RepoNames == <<"repoA", "repoB", "repoC", "repoD">>
ResolverRepos == {RepoNames[i] : i \in 1..MaxCandidates}

\* find_repository on its own: any identifier, candidate list and probe answers
InitResolver ==
    /\ Fresh
    /\ config = <<>>
    /\ lastDecoded = config
    /\ prior = config
    /\ resolver \in {[id |-> i, cands |-> c, probes |-> p, result |-> None, done |-> FALSE] :
                       i \in Identifiers, c \in ListsOver(ResolverRepos),
                       p \in [ResolverRepos -> ProbeAnswers]}

\* lines 146, 195: one call of find_repository runs to its result
ResolverFind ==
    /\ ~resolver.done
    /\ resolver' = [resolver EXCEPT !.result = FindRepositoryIn(resolver.cands, resolver.probes),
                                    !.done = TRUE]
    /\ UNCHANGED <<pc, exitCode, interrupted, app_id, repo, files, pending, okSet, failSet,
                   success, file_processor, dlc_processor, dlc_ids, dlcIdx, config, calls,
                   log, decoded, lastDecoded, prior, ended>>

NextResolver == ResolverFind

SpecResolver == InitResolver /\ [][NextResolver]_vars

\* ---------------------------------------------------------------- claims

\* the collaborator operations called so far in this invocation
CalledOps == {calls[i][1] : i \in 1..Len(calls)}
\* the (operation, identifier) pairs called so far in this invocation
CalledPairs == {calls[i] : i \in 1..Len(calls)}
PipelineOps == {"search_app", "find_repository", "fetch_app_details",
                "fetch_repository_files", "process_files", "save_lua_config"}

\* C1 (fail-fast law): once the rate-limit check has reported Exhausted, the
\* invocation has returned and has made no resolution, listing, acquisition
\* or persist call, for the primary or for any dependent identifier; the
\* disk is as the invocation found it.
C1_FailFast ==
    <<"rate_exhausted", NoId>> \in log =>
        /\ pc = "returned"
        /\ CalledOps \cap PipelineOps = {}
        /\ dlcIdx = 0
        /\ config = prior

\* C1 witness: the rate check was made and reported Exhausted
C1_Witness ==
    /\ <<"rate_exhausted", NoId>> \in log
    /\ calls = << <<"check_rate_limit", NoId>> >>

\* C2: when no candidate repository matches the primary identifier, the
\* invocation ends with the resolution failure reported, persist is never
\* called, the identifier's entry is neither written nor modified, and no
\* dependent run is started.
C2_NoMatchAborts ==
    <<"repo_not_found", app_id>> \in log =>
        /\ pc = "returned"
        /\ "save_lua_config" \notin CalledOps
        /\ config = prior
        /\ dlcIdx = 0
        /\ \A c \in CalledPairs : c[1] = "find_repository" => c[2] = app_id

\* C2 witness: the primary resolution failed over a disk that already holds
\* an entry for the identifier
C2_Witness ==
    /\ <<"repo_not_found", app_id>> \in log
    /\ app_id \in DOMAIN prior
    /\ <<"find_repository", app_id>> \in CalledPairs

\* C3 (failure isolation across the fan-out): whatever failure ends one
\* dependent's run, a returned failure or an error raised by one of its
\* stages, every later dependent identifier is still attempted: an
\* invocation that persisted the primary entry, entered the DLC loop and was
\* not interrupted ends only after the loop has reached the last dependent
\* identifier.
C3_DependentFailureIsolated ==
    (pc \in Terminal /\ ~interrupted /\ dlcIdx > 0 /\ <<"done", app_id>> \in log)
        => dlcIdx = Len(dlc_ids)

\* this step calls save_lua_config
PersistCalled ==
    /\ Len(calls') = Len(calls) + 1
    /\ calls'[Len(calls')][1] = "save_lua_config"

\* C4: when process_files ends with zero successful artifacts, the
\* identifier's run is aborted and persist (save_lua_config) is not called
\* for it.
C4_ZeroSuccessNeverPersists == [][PersistCalled => okSet # {}]_vars

\* the reports of an unrecovered failure or of a user interrupt
FailureReports == {"no_steam_path", "rate_exhausted", "no_app_id", "repo_not_found",
                   "no_files", "save_failed", "exception", "interrupted"}

\* C5: the invocation exits non-zero on every unrecovered failure and on
\* user interrupt, and exits zero exactly on full or partial success.
C5_ExitStatusReflectsFailure ==
    pc \in Terminal =>
        (exitCode # 0 <=> \E m \in log : m[1] \in FailureReports)

\* C6: dependent runs are started only after the primary run reached
\* Persisted: after a primary run that failed (zero successful artifacts,
\* persist failure) no dependent run is started.
C6_DependentsOnlyAfterPrimaryPersisted ==
    dlcIdx > 0 => (success /\ <<"done", app_id>> \in log)

\* C7: the "partial failure" report is emitted when some but not all
\* artifacts failed and never for total failure (zero successes).
C7_PartialFailureReport ==
    pc = "save" =>
        /\ okSet = {} => <<"partial_failure", app_id>> \notin log
        /\ (okSet # {} /\ okSet # files) => <<"partial_failure", app_id>> \in log

\* C8 (isolation law): the entry persisted for an identifier holds no record
\* decoded for a different identifier, whatever the outcomes of the runs
\* before it.
C8_IsolationLaw ==
    \A id \in DOMAIN config : \A r \in config[id] : r[1] = id

\* C8 witness: over an empty disk the primary and two dependents each
\* persisted records, one run after the other
C8_Witness ==
    /\ prior = <<>>
    /\ pc = "returned"
    /\ Len(dlc_ids) >= 2
    /\ {app_id, dlc_ids[1], dlc_ids[2]} \subseteq DOMAIN config
    /\ \A id \in {app_id, dlc_ids[1], dlc_ids[2]} : config[id] # {}

\* C9: the persisted entry of an identifier is exactly the record set decoded
\* in the most recent run that persisted it: each persist replaces the prior
\* entry wholesale.
C9_EntryReflectsLastDecode == config = lastDecoded

\* C9 witness: a DLC entry of an earlier invocation was replaced by a run that
\* decoded fewer records, after an earlier run of this invocation persisted
\* records of its own
C9_Witness ==
    /\ dlcIdx > 0
    /\ app_id \in DOMAIN config
    /\ config[app_id] # {}
    /\ <<"save_lua_config", app_id>> \in CalledPairs
    /\ \E id \in DlcIds :
         /\ id \in DOMAIN prior
         /\ id \in DOMAIN config
         /\ <<"save_lua_config", id>> \in CalledPairs
         /\ config[id] # {}
         /\ config[id] # prior[id]
         /\ config[id] \subseteq prior[id]

\* C10 (cancellation): the step that delivers a user interrupt, and every
\* step after it, leaves the invocation ended, starts no further dependent,
\* makes no further call and leaves every persisted entry unchanged.
C10_Cancellation ==
    [][interrupted' =>
         /\ pc' = "exited"
         /\ dlcIdx' = dlcIdx
         /\ calls' = calls
         /\ config' = config]_vars

\* C10 witness: the interrupt arrived after an entry had been persisted and
\* while dependent identifiers were still to be run
C10_Witness ==
    /\ interrupted
    /\ pc = "exited"
    /\ config # prior
    /\ dlcIdx > 0
    /\ dlcIdx < Len(dlc_ids)

\* the positions in the call log of the calls of an operation
CallsOf(op) == {i \in 1..Len(calls) : calls[i][1] = op}

\* C11: the rate budget is checked at most once in an invocation; the check
\* is the first call of the pipeline, made before any resolution, and once
\* the pipeline runs it has been made exactly once, however many dependent
\* identifiers have been run.
C11_RateCheckedOnce ==
    /\ Cardinality(CallsOf("check_rate_limit")) <= 1
    /\ CalledOps \cap PipelineOps # {} =>
          /\ Cardinality(CallsOf("check_rate_limit")) = 1
          /\ calls[1][1] = "check_rate_limit"
    /\ dlcIdx > 0 => Cardinality(CallsOf("check_rate_limit")) = 1

\* C11 witness: the invocation ran two dependent identifiers to the end
C11_Witness ==
    /\ pc = "returned"
    /\ dlcIdx >= 2
    /\ Cardinality(CallsOf("find_repository")) >= 3
    /\ Cardinality(CallsOf("check_rate_limit")) = 1

\* C14: when locating the installed client directory fails, the invocation
\* has returned without any rate-limit check, resolution, acquisition or
\* persist call, and the disk is as it was found.
C14_EnvironmentGate ==
    <<"no_steam_path", NoId>> \in log =>
        /\ pc = "returned"
        /\ calls = <<>>
        /\ dlcIdx = 0
        /\ config = prior

\* C14 witness: the gate failed over a disk that holds entries
C14_Witness ==
    /\ <<"no_steam_path", NoId>> \in log
    /\ pc = "returned"
    /\ DOMAIN prior = Identifiers

\* the positions of main inside process_files
Downloading == {"downloading", "dlc_downloading"}

\* this step is the end of one download of process_files
DownloadEnds == pc \in Downloading /\ pc' = pc /\ pending' # pending

\* C13: while process_files runs and when it has finished, every listed
\* artifact is exactly one of in flight, succeeded or failed, so at the end
\* the success count plus the failure count is the number of listed
\* artifacts; and the end of one download, in whatever order the downloads
\* end, settles that artifact alone by its own outcome: it cancels no
\* sibling in flight and changes no sibling's outcome.
C13_AcquirerAccounting ==
    /\ [](pc \in Downloading \cup {"save", "dlc_save"} =>
            /\ okSet \cup failSet \cup pending = files
            /\ okSet \cap failSet = {}
            /\ pending \cap (okSet \cup failSet) = {}
            /\ pc \notin Downloading =>
                  /\ pending = {}
                  /\ Cardinality(okSet) + Cardinality(failSet) = Cardinality(files))
    /\ [][DownloadEnds =>
            \E f \in pending :
               /\ pending' = pending \ {f}
               /\ \/ okSet' = okSet \cup {f} /\ failSet' = failSet
                  \/ failSet' = failSet \cup {f} /\ okSet' = okSet]_vars

\* C13 witness: process_files finished for a DLC with one artifact succeeded
\* and one failed
C13_Witness ==
    /\ pc = "dlc_save"
    /\ pending = {}
    /\ okSet # {}
    /\ failSet # {}

\* the positions in a candidate list whose probe answers yes
Matching(cands, probes) == {i \in 1..Len(cands) : probes[cands[i]] = "yes"}

\* C12: for every identifier, candidate list and probe answers,
\* find_repository returns the first candidate in list order whose probe
\* answers yes, never a later one; a probe failing with a network error
\* counts as no match and the search goes on; None is returned iff no
\* candidate answers yes.
C12_FirstMatch ==
    resolver.done /\ resolver.id # NoId =>
        LET yes == Matching(resolver.cands, resolver.probes)
        IN  IF yes = {}
            THEN resolver.result = None
            ELSE /\ resolver.result # None
                 /\ \E i \in yes : /\ \A j \in yes : i <= j
                                   /\ resolver.result = resolver.cands[i]

\* C12 witness: the first candidate's probe failed with a network error and
\* the second candidate, which answered yes, was returned
C12_Witness ==
    /\ resolver.done
    /\ Len(resolver.cands) = 2
    /\ resolver.probes[resolver.cands[1]] = "error"
    /\ resolver.probes[resolver.cands[2]] = "yes"
    /\ resolver.result = resolver.cands[2]

\* the four stages of one identifier's run, in pipeline order
StageOps == <<"find_repository", "fetch_repository_files", "process_files",
              "save_lua_config">>

\* the stage calls made so far for identifier `id`, in call order
RunOf(id) ==
    LET own == SelectSeq(calls, LAMBDA c : c[2] = id /\ c[1] # "fetch_app_details")
    IN  [i \in 1..Len(own) |-> own[i][1]]

\* sequence s is an initial segment of sequence t
IsPrefix(s, t) == Len(s) <= Len(t) /\ \A i \in 1..Len(s) : s[i] = t[i]

\* the identifiers whose run ended with outcome `why`
EndedWith(why) == {e[1] : e \in {x \in ended : x[2] = why}}

\* C15: the stage calls of every identifier are an initial segment of
\* resolve, list, process (acquire and decode), persist, so each stage runs at
\* most once and in that order; persist is never called for an identifier
\* whose resolution found no match or whose listing was empty; and a run
\* stands before its persist call only after process_files succeeded for at
\* least one artifact.
C15_StagesInOrder ==
    /\ \A id \in Identifiers : IsPrefix(RunOf(id), StageOps)
    /\ \A id \in EndedWith("ResolutionFailure") \cup EndedWith("ListingFailure") :
          <<"save_lua_config", id>> \notin CalledPairs
    /\ pc \in {"process", "dlc_process"} => files # {}
    /\ pc \in {"save", "dlc_save"} => pending = {} /\ okSet # {}

\* the reports that tell the user the run of an identifier failed
RunFailureReports == {"repo_not_found", "no_files", "save_failed", "dlc_repo_not_found"}
\* the reports that tell the user the run of an identifier completed
RunDoneReports == {"done", "dlc_done"}

\* C16: every run that ended in ResolutionFailure, ListingFailure or
\* PersistFailure has a failure report for its identifier in the output and
\* no report that it completed.
C16_TerminalFailureReported ==
    \A id \in EndedWith("ResolutionFailure") \cup EndedWith("ListingFailure")
                \cup EndedWith("PersistFailure") :
        /\ \E m \in log : m[2] = id /\ m[1] \in RunFailureReports
        /\ \A m \in log : m[2] = id => m[1] \notin RunDoneReports

\* the identifiers whose run has ended
EndedIds == {e[1] : e \in ended}
\* the identifiers whose run has started with its resolution
StartedIds == {c[2] : c \in {x \in CalledPairs : x[1] = "find_repository"}}

\* C17: at most one run is open at a time, the run of the current
\* identifier: every other identifier whose resolution was started has
\* reached Persisted or a failure; a dependent's run has started only after
\* the primary run and the runs of all dependents before it in the list have
\* ended; and downloads are in flight only inside process_files, all of them
\* artifacts of the current identifier's listing.
C17_RunsSequential ==
    /\ StartedIds \ EndedIds \subseteq {CurrentId}
    /\ Cardinality(StartedIds \ EndedIds) <= 1
    /\ \A k \in 1..Len(dlc_ids) :
          dlc_ids[k] \in StartedIds =>
              /\ app_id \in EndedIds
              /\ \A j \in 1..(k - 1) : dlc_ids[j] \in EndedIds
    /\ (pending # {} /\ pc \notin Terminal) => (pc \in Downloading /\ pending \subseteq files)

\* C17 witness: two downloads of the second dependent are in flight after the
\* first dependent's run has ended
C17_Witness ==
    /\ dlcIdx = 2
    /\ pc = "dlc_downloading"
    /\ Cardinality(pending) = 2
    /\ dlc_ids[1] \in EndedIds
    /\ dlc_ids[2] \notin EndedIds

\* C18: no stage is called twice for the same identifier, and no step calls
\* anything for an identifier whose run has already ended, failed or not.
C18_NoStageRetried ==
    /\ [](\A i, j \in 1..Len(calls) :
            (i # j /\ calls[i][2] # NoId) => calls[i] # calls[j])
    /\ [][\A i \in (Len(calls) + 1)..Len(calls') : calls'[i][2] \notin EndedIds]_vars

\* C18 witness: the invocation returned after one dependent failed to resolve
\* and another failed to persist
C18_Witness ==
    /\ pc = "returned"
    /\ EndedWith("ResolutionFailure") \cap DlcIds # {}
    /\ EndedWith("PersistFailure") \cap DlcIds # {}

\* the positions of main in program order
PcOrder == <<"start", "rate", "search", "find", "details", "list", "process",
             "downloading", "save", "dlc_find", "dlc_list", "dlc_process",
             "dlc_downloading", "dlc_save", "returned", "exited">>
Position(p) == CHOOSE i \in 1..Len(PcOrder) : PcOrder[i] = p

\* this step moves main forward: to the next dependent identifier in list
\* order, to a later position of the same run, or by ending one download
Advance ==
    \/ dlcIdx' = dlcIdx + 1 /\ dlcIdx' <= Len(dlc_ids) /\ pc' = "dlc_find"
    \/ dlcIdx' = dlcIdx /\ Position(pc') > Position(pc)
    \/ /\ dlcIdx' = dlcIdx
       /\ pc' = pc
       /\ pc \in Downloading
       /\ pending' \subseteq pending
       /\ pending' # pending

\* C19: when every awaited call eventually returns or raises, every
\* invocation reaches a terminal position (returned or exited); on the way
\* every step moves forward, so the dependents are visited one by one in list
\* order, each at most once, and main never goes back to an earlier
\* identifier or stage.
C19_Terminates ==
    /\ <>(pc \in Terminal)
    /\ [][Advance]_vars

\* C19 witness: the invocation returned after visiting every dependent of the
\* longest list, without interrupt or exception
C19_Witness ==
    /\ pc = "returned"
    /\ exitCode = 0
    /\ Len(dlc_ids) = MaxDlc
    /\ dlcIdx = MaxDlc
    /\ \A k \in 1..MaxDlc : dlc_ids[k] \in EndedIds
====
